---------------------------- MODULE Spec2Model ----------------------------
(***************************************************************************)
(* The SheetMusicOutput component of ducgt/piano                           *)
(* (src/client/components/iomodules/SheetMusicOutput/SheetMusicOutput.jsx) *)
(* as a state machine: one action per event handler or timer callback.     *)
(*                                                                         *)
(* Collaborators that are not code of the component are inputs: the value  *)
(* returned by sheetMusic.ShadeNotes (the suggested scroll offset), the    *)
(* pulse returned by sheetMusic.PulseTimeForPoint, the parsed file's       *)
(* getters, the player time of a tick.  Calls made to collaborators        *)
(* (ShadeNotes, setCurrentMs, props.saveData, the overlay's 2d context)    *)
(* are recorded, per handler run, in the variable last.                    *)
(***************************************************************************)
EXTENDS Integers, Sequences, FiniteSets, TLC

VARIABLES
  state,                   \* this.state (React component state)
  currentPulseTime,        \* this.currentPulseTime
  prevPulseTime,           \* this.prevPulseTime
  lastScrollPos,           \* this.lastScrollPos
  isProgrammaticScrolling, \* this.isProgrammaticScrolling
  sheetMusic,              \* this.sheetMusic with pulsesPerMs/totalPulses/measure
  parsedMidiFile,          \* this.props.parsedMidiFile
  preloads,                \* preloadImages() promises not yet resolved
  scrollTop,               \* this.divCanvasScroll.scrollTop
  runs,                    \* Easing.event emitters that still have ticks to emit
  pendingScroll,           \* causes of the scroll events the debounced handler has not yet handled
  stored,                  \* what the persistence collaborator holds
  last,                    \* the collaborator calls made by the most recent handler run
  lastCall,                \* history: the most recent scrollTo call
  ticks,                   \* history: the player times of the last two ticks since a click or load
  loopSeeks,               \* history: seeks sent by noteOff while playback has stayed past the end bound
  trackSettings,           \* SongSettings: this.props.trackSettings
  presses                  \* history: the track settings before each of the last two presses of one toggle-all button

\* the variables of SongSettings
trackVars == <<trackSettings, presses>>

vars == <<state, currentPulseTime, prevPulseTime, lastScrollPos,
          isProgrammaticScrolling, sheetMusic, parsedMidiFile, preloads,
          scrollTop, runs, pendingScroll, stored, last, lastCall,
          ticks, loopSeeks, trackVars>>

---------------------------------------------------------------------------
(* Bounds of the model *)

MaxScroll == 1     \* scroll offsets are 0..MaxScroll
MaxRuns == 2       \* animation runs in flight at once
MaxTime == 2       \* player times are 0..MaxTime
MaxClick == 3      \* clicked pulses are 2, 4, .. 2 * MaxClick
MaxPreloads == 2   \* preloads awaiting completion at once
MaxLoopSeeks == 2  \* the loop-seek counter saturates here
Steps == 2         \* ticks of one animation run (10 in the source)
MaxTracks == 3     \* tracks of the song

(* JavaScript values *)

\* undefined or NaN in a numeric field: arithmetic on it yields it again and
\* every comparison with it is false.
NaN == -1000

Sub(a, b) == IF a = NaN \/ b = NaN THEN NaN ELSE a - b
Mul(a, b) == IF a = NaN \/ b = NaN THEN NaN ELSE a * b
\* a / b; the inputs are chosen so that every division made is exact
Quot(a, b) == IF a = NaN \/ b = NaN THEN NaN ELSE a \div b
Gt(a, b) == a # NaN /\ b # NaN /\ a > b
Ge(a, b) == a # NaN /\ b # NaN /\ a >= b

\* a boolean field that may be undefined: "undefined", "false" or "true"
Truthy(v) == v = "true"
Bool(b) == IF b THEN "true" ELSE "false"

---------------------------------------------------------------------------
(* The collaborators' data *)

\* parsedMidiFile.getPulsesPerMsec(), getTotalPulses(), getMeasure()
ParsedFiles ==
  { [id |-> "A", pulsesPerMsec |-> 1, totalPulses |-> 4, measure |-> 2],
    [id |-> "B", pulsesPerMsec |-> 2, totalPulses |-> 4, measure |-> 2] }

NoFile == [id |-> "none", pulsesPerMsec |-> NaN, totalPulses |-> NaN, measure |-> NaN]

\* this.sheetMusic unset, with this.pulsesPerMs, this.totalPulses, this.measure unset
NoSheet == [file |-> NoFile, SelectionStartPulse |-> 0, SelectionEndPulse |-> 0]

pulsesPerMs == sheetMusic.file.pulsesPerMsec
totalPulses == sheetMusic.file.totalPulses
measure == sheetMusic.file.measure

ScrollOffsets == 0..MaxScroll
\* what sheetMusic.ShadeNotes returns: an offset, or -1 when nothing is shaded
Suggestions == {-1} \cup ScrollOffsets
Times == 0..MaxTime
\* what sheetMusic.PulseTimeForPoint returns (even, so that pulse / pulsesPerMs is whole)
ClickPulses == { 2 * k : k \in 1..MaxClick }


---------------------------------------------------------------------------
(* What one handler run hands to its collaborators *)

NoOut(op) ==
  [ op |-> op,           \* the handler that ran
    arg |-> NaN,         \* its input: the player time of a tick, the pulse clicked
    shade |-> <<>>,      \* the (current, previous) pairs passed to sheetMusic.ShadeNotes
    scrollTo |-> <<>>,   \* the scrollTo calls made: target, autoScroll read, run started
    seeks |-> <<>>,      \* the times passed to props.callbacks.setCurrentMs
    saves |-> <<>>,      \* the snapshots passed to props.saveData
    canvas |-> <<>>,     \* the operations on the overlay's 2d context
    causes |-> {},       \* scroll handler only: the causes of the events it handles
    tick |-> <<>>,       \* 'data' callback only: the run that ticked, the tick, the offset written
    dispatch |-> <<>>,   \* SongSettings only: the updates dispatched
    error |-> FALSE ]    \* the handler threw

NoCall == [ target |-> NaN, auto |-> FALSE, started |-> FALSE, changed |-> FALSE,
            repeat |-> FALSE, prevStarted |-> FALSE ]

ClearRect == [op |-> "clearRect", dy |-> 0]
Translate(dy) == [op |-> "translate", dy |-> dy]
Paint == [op |-> "ShadeNotes", dy |-> 0]

---------------------------------------------------------------------------
(* Scroll animation *)

\* Easing(Steps, 'sinusoidal'): the progress of tick k of n, in thousandths:
\* sin of k-1 of n-1 parts of a quarter turn, from 0 at the first tick to 1 at the last
Ease(k, n) ==
  CASE k = 1 -> 0
    [] k = n -> 1000
    [] n = 3 /\ k = 2 -> 707
    [] n = 4 /\ k = 2 -> 500
    [] n = 4 /\ k = 3 -> 866
    [] OTHER -> ((k - 1) * 1000) \div (n - 1)

\* lerp(start, end, t) with t in thousandths: the result in thousandths of a pixel
lerp(start, end, t) == start * 1000 + (end - start) * t

\* the scrollTop setter keeps whole pixels
SetScrollTop(v) == v \div 1000

\* the guard without its test of lastScrollPos
ScrollToAcceptsRepeats(scrollPos, lsp, auto) == scrollPos >= 0 /\ Truthy(auto)
\* the guard without its test of the sign
ScrollToAcceptsNegative(scrollPos, lsp, auto) == scrollPos # lsp /\ Truthy(auto)

\* the guard of scrollTo
ScrollToAccepts(scrollPos, lsp, auto) ==
  scrollPos >= 0 /\ scrollPos # lsp /\ Truthy(auto)

\* scrollTo(scrollPos), reading this.state.autoScroll as auto
ScrollTo(scrollPos, auto) ==
  IF ScrollToAccepts(scrollPos, lastScrollPos, auto)
  THEN [ lastScrollPos |-> scrollPos,
         runs |-> Append(runs, [ start |-> scrollTop, target |-> scrollPos, done |-> 0,
                                 \* history: started while another run was in flight
                                 superseding |-> runs # <<>> ]) ]
  ELSE [ lastScrollPos |-> lastScrollPos, runs |-> runs ]

\* the record of one scrollTo call: its argument, the autoScroll it read, whether
\* it started a run and whether it changed lastScrollPos or the runs in flight
Call(scrollPos, auto, r) ==
  [ target |-> scrollPos, auto |-> Truthy(auto),
    started |-> Len(r.runs) > Len(runs),
    changed |-> r.lastScrollPos # lastScrollPos \/ r.runs # runs ]

\* shadeNotes(cur, prev) with this.sheetMusic = sheet, when sheet.ShadeNotes returns sugg
ShadeNotes(sheet, cur, prev, sugg, auto) ==
  IF sheet = NoSheet
  THEN [ lastScrollPos |-> lastScrollPos, runs |-> runs,
         shade |-> <<>>, scrollTo |-> <<>>, canvas |-> <<>> ]
  ELSE LET r == ScrollTo(sugg, auto)
       IN [ lastScrollPos |-> r.lastScrollPos, runs |-> r.runs,
            shade |-> << <<cur, prev>> >>,
            scrollTo |-> << Call(sugg, auto, r) >>,
            canvas |-> << Translate(-scrollTop), Paint, Translate(scrollTop) >> ]

\* the same without the clearShadeNotes() before it
ReshadeWithoutClear(sheet, sugg, auto) ==
  ShadeNotes(sheet, currentPulseTime, Sub(currentPulseTime, sheet.file.measure), sugg, auto)

\* clearShadeNotes(); shadeNotes(currentPulseTime, currentPulseTime - measure):
\* the tail of paintSheetMusic and the head of scroll
Reshade(sheet, sugg, auto) ==
  LET r == ShadeNotes(sheet, currentPulseTime,
                      Sub(currentPulseTime, sheet.file.measure), sugg, auto)
  IN [r EXCEPT !.canvas = <<ClearRect>> \o r.canvas]

\* paintSheetMusic()
PaintSheetMusic(sheet, sugg, auto) ==
  IF sheet = NoSheet
  THEN [ lastScrollPos |-> lastScrollPos, runs |-> runs,
         shade |-> <<>>, scrollTo |-> <<>>, canvas |-> <<>> ]
  ELSE Reshade(sheet, sugg, auto)

---------------------------------------------------------------------------
(* Selection and persistence *)

Selection(s) ==
  [ selectionStartMs |-> s.selectionStartMs,
    selectionEndMs |-> s.selectionEndMs,
    selectionStartPulse |-> s.selectionStartPulse,
    selectionEndPulse |-> s.selectionEndPulse ]

\* { ...base, ...over }, and what setState(over) makes of the state base
Merge(base, over) ==
  [ k \in (DOMAIN base) \cup (DOMAIN over) |->
      IF k \in DOMAIN over THEN over[k] ELSE base[k] ]

\* the snapshot saveData(toMerge) hands to props.saveData
SaveData(st, toMerge) ==
  Merge([ selectionStartMs |-> st.selectionStartMs,
          selectionEndMs |-> st.selectionEndMs,
          selectionStartPulse |-> st.selectionStartPulse,
          selectionEndPulse |-> st.selectionEndPulse,
          autoScroll |-> st.autoScroll ], toMerge)

\* the currentSelection object setSelection(prop) builds; prop "" is null
CurrentSelection(st, prop) ==
  CASE prop = "selectionStart" ->
         [ selectionStartMs |-> st.lastClickMs,
           selectionEndMs |-> st.selectionEndMs,
           selectionStartPulse |-> st.lastClickPulse,
           selectionEndPulse |-> st.selectionEndPulse ]
    [] prop = "selectionEnd" ->
         [ selectionStartMs |-> st.selectionStartMs,
           selectionEndMs |-> st.lastClickMs,
           selectionStartPulse |-> st.selectionStartPulse,
           selectionEndPulse |-> st.lastClickPulse ]
    [] OTHER ->
         [ selectionStartMs |-> -1, selectionEndMs |-> -1,
           selectionStartPulse |-> 0, selectionEndPulse |-> 0 ]

\* the two writes with the bounds exchanged
WithSelectionSwapped(sheet, sel) ==
  [ sheet EXCEPT !.SelectionStartPulse = sel.selectionEndPulse,
                 !.SelectionEndPulse = sel.selectionStartPulse ]

\* the two writes of updateSelection to the rendering collaborator
WithSelection(sheet, sel) ==
  [ sheet EXCEPT !.SelectionStartPulse = sel.selectionStartPulse,
                 !.SelectionEndPulse = sel.selectionEndPulse ]

\* updateSelection(sel) with this.sheetMusic = sheet and this.state = st
UpdateSelection(sheet, sel, st, sugg) ==
  IF sheet = NoSheet
  THEN [ sheetMusic |-> sheet, lastScrollPos |-> lastScrollPos, runs |-> runs,
         shade |-> <<>>, scrollTo |-> <<>>, canvas |-> <<>>, seeks |-> <<>> ]
  ELSE LET r == PaintSheetMusic(sheet, sugg, st.autoScroll)
       IN [ sheetMusic |-> WithSelection(sheet, sel),
            lastScrollPos |-> r.lastScrollPos, runs |-> r.runs,
            shade |-> r.shade, scrollTo |-> r.scrollTo, canvas |-> r.canvas,
            seeks |-> << st.selectionStartMs >> ]

\* the loop test of noteOff: currentPulseTime / pulsesPerMs > selectionEndMs
\* (pulsesPerMs is positive, so the quotient is compared by cross-multiplying)
PastEnd(cur, ppm, st) ==
  /\ st.selectionStartMs >= 0
  /\ st.selectionEndMs >= 0
  /\ Gt(cur, Mul(st.selectionEndMs, ppm))

---------------------------------------------------------------------------
(* The state after construction and mounting *)

Mounted ==
  /\ state = [ selectionStartMs |-> -1, selectionEndMs |-> -1,
               selectionStartPulse |-> 0, selectionEndPulse |-> 0,
               autoScroll |-> "undefined", isSelecting |-> FALSE,
               lastClickMs |-> NaN, lastClickPulse |-> NaN ]
  /\ currentPulseTime = NaN
  /\ prevPulseTime = NaN
  /\ lastScrollPos = -1
  /\ isProgrammaticScrolling = FALSE
  /\ sheetMusic = NoSheet
  /\ parsedMidiFile = NoFile
  /\ preloads = <<>>
  /\ scrollTop = 0
  /\ runs = <<>>
  /\ pendingScroll = {}
  /\ stored = <<>>
  /\ last = NoOut("constructor")
  /\ lastCall = NoCall
  /\ ticks = <<>>
  /\ loopSeeks = 0

\* no song yet: SongSettings has no tracks to show
Init ==
  /\ Mounted
  /\ trackSettings = <<>>
  /\ presses = <<>>

\* history: the most recent scrollTo call, whether it repeats the call before it
\* (same target, autoScroll enabled at both) and whether that one started a run
CallAfter(calls) ==
  IF calls = <<>> THEN lastCall
  ELSE LET c == calls[1]
           repeat == c.target = lastCall.target /\ c.auto /\ lastCall.auto
       IN [ target |-> c.target, auto |-> c.auto, started |-> c.started,
            changed |-> c.changed, repeat |-> repeat,
            prevStarted |-> repeat /\ lastCall.started ]
\* history: the last two tick times
TicksAfter(t) == IF ticks = <<>> THEN <<t>> ELSE <<ticks[Len(ticks)], t>>
\* history: the loop seeks sent while playback has stayed past the end bound
SeeksAfter(cur, ppm, st, n) == IF PastEnd(cur, ppm, st) THEN n ELSE 0

---------------------------------------------------------------------------
(* Playback *)

\* the tick's pulse without the conversion
PulseAtAsMs(playerTimeMillis, ppm) == playerTimeMillis

\* playerTimeMillis * this.pulsesPerMs
PulseAt(playerTimeMillis, ppm) == Mul(playerTimeMillis, ppm)

\* animate(playerTimeMillis)
Animate(t, sugg) ==
  LET cur == PulseAt(t, pulsesPerMs)
      r == ShadeNotes(sheetMusic, cur, prevPulseTime, sugg, state.autoScroll)
  IN /\ Len(r.runs) <= MaxRuns
     /\ currentPulseTime' = cur
     /\ prevPulseTime' = cur
     /\ lastScrollPos' = r.lastScrollPos
     /\ runs' = r.runs
     /\ last' = [NoOut("animate") EXCEPT !.arg = t, !.shade = r.shade, !.scrollTo = r.scrollTo,
                                         !.canvas = r.canvas]
     /\ lastCall' = CallAfter(r.scrollTo)
     /\ ticks' = TicksAfter(t)
     /\ loopSeeks' = SeeksAfter(cur, pulsesPerMs, state, loopSeeks)
     /\ UNCHANGED <<trackVars, state, isProgrammaticScrolling, sheetMusic, parsedMidiFile,
                    preloads, scrollTop, pendingScroll, stored>>

\* noteOff()
NoteOff ==
  LET sends == PastEnd(currentPulseTime, pulsesPerMs, state)
  IN /\ sends => loopSeeks < MaxLoopSeeks
     /\ last' = [NoOut("noteOff") EXCEPT
                   !.seeks = IF sends THEN << state.selectionStartMs >> ELSE <<>>]
     /\ loopSeeks' = IF sends THEN loopSeeks + 1 ELSE loopSeeks
     /\ UNCHANGED <<trackVars, state, currentPulseTime, prevPulseTime, lastScrollPos,
                    isProgrammaticScrolling, sheetMusic, parsedMidiFile, preloads,
                    scrollTop, runs, pendingScroll, stored, lastCall, ticks>>

\* click without the move back
ClickPulseAsClicked(p, total, m) == p

\* the pulse click keeps as currentPulseTime: a click past the end is moved a measure back
ClickPulse(p, total, m) == IF Gt(p, total) THEN Sub(p, m) ELSE p

\* click(evt), where sheetMusic.PulseTimeForPoint(evt) = p; without a score the
\* read of this.sheetMusic.PulseTimeForPoint throws after the overlay is cleared
Click(p, sugg) ==
  IF sheetMusic = NoSheet
  THEN /\ last' = [NoOut("click") EXCEPT !.arg = p, !.canvas = <<ClearRect>>,
                                          !.error = TRUE]
       /\ UNCHANGED <<trackVars, state, currentPulseTime, prevPulseTime, lastScrollPos,
                      isProgrammaticScrolling, sheetMusic, parsedMidiFile, preloads,
                      scrollTop, runs, pendingScroll, stored, lastCall, ticks,
                      loopSeeks>>
  ELSE LET prev == Sub(p, measure)
           cur == ClickPulse(p, totalPulses, measure)
           lastClickMs == Quot(cur, pulsesPerMs)
           r == ShadeNotes(sheetMusic, cur, prev, sugg, state.autoScroll)
       IN /\ Len(r.runs) <= MaxRuns
          /\ currentPulseTime' = cur
          /\ prevPulseTime' = prev
          /\ lastScrollPos' = r.lastScrollPos
          /\ runs' = r.runs
          /\ state' = Merge(state, [ isSelecting |-> TRUE, lastClickMs |-> lastClickMs,
                                     lastClickPulse |-> cur ])
          /\ last' = [NoOut("click") EXCEPT !.arg = p, !.shade = r.shade, !.scrollTo = r.scrollTo,
                                            !.canvas = <<ClearRect>> \o r.canvas,
                                            !.seeks = << lastClickMs >>]
          /\ lastCall' = CallAfter(r.scrollTo)
          /\ ticks' = <<>>
          /\ loopSeeks' = SeeksAfter(cur, pulsesPerMs, state, loopSeeks)
          /\ UNCHANGED <<trackVars, isProgrammaticScrolling, sheetMusic, parsedMidiFile, preloads,
                         scrollTop, pendingScroll, stored>>

---------------------------------------------------------------------------
(* Scrolling *)

\* the user moves the scroll bar to y: the surface raises a scroll event
UserScroll(y) ==
  /\ y # scrollTop
  /\ scrollTop' = y
  /\ pendingScroll' = pendingScroll \cup {"user"}
  /\ last' = NoOut("userScroll")
  /\ UNCHANGED <<trackVars, state, currentPulseTime, prevPulseTime, lastScrollPos,
                 isProgrammaticScrolling, sheetMusic, parsedMidiFile, preloads,
                 runs, stored, lastCall, ticks, loopSeeks>>

\* scroll(), run by debounce once for the scroll events raised since its last run
Scroll(sugg) ==
  LET r == Reshade(sheetMusic, sugg, state.autoScroll)
  IN /\ pendingScroll # {}
     /\ Len(r.runs) <= MaxRuns
     /\ lastScrollPos' = r.lastScrollPos
     /\ runs' = r.runs
     /\ state' = IF Truthy(state.autoScroll) /\ ~isProgrammaticScrolling
                 THEN Merge(state, [autoScroll |-> "false"])
                 ELSE state
     /\ isProgrammaticScrolling' = FALSE
     /\ pendingScroll' = {}
     /\ last' = [NoOut("scroll") EXCEPT !.shade = r.shade, !.scrollTo = r.scrollTo,
                                        !.canvas = r.canvas, !.causes = pendingScroll]
     /\ lastCall' = CallAfter(r.scrollTo)
     /\ UNCHANGED <<trackVars, currentPulseTime, prevPulseTime, sheetMusic, parsedMidiFile,
                    preloads, scrollTop, stored, ticks, loopSeeks>>

\* timers that fire in any order
TickDueInAnyOrder(i, k) == TRUE

\* Every run ticks on a timer of the same period, and timers fire in the order
\* they fall due: tick k of run i comes after tick k of every run started before it.
TickDue(i, k) == \A j \in 1..(i - 1) : runs[j].done >= k

\* the call with start and scrollPos exchanged
TickWriteSwapped(run, k) == SetScrollTop(lerp(run.target, run.start, Ease(k, Steps)))

\* the offset tick k of a run writes: lerp(start, scrollPos, data)
TickWrite(run, k) == SetScrollTop(lerp(run.start, run.target, Ease(k, Steps)))

\* the 'data' callback of run i: one tick of Easing.event
EasingData(i) ==
  LET run == runs[i]
      k == run.done + 1
      v == TickWrite(run, k)
  IN /\ TickDue(i, k)
     /\ isProgrammaticScrolling' = TRUE
     /\ scrollTop' = v
     /\ pendingScroll' = IF v # scrollTop THEN pendingScroll \cup {"tick"}
                         ELSE pendingScroll
     /\ runs' = IF k = Steps
                THEN SubSeq(runs, 1, i - 1) \o SubSeq(runs, i + 1, Len(runs))
                ELSE [runs EXCEPT ![i].done = k]
     /\ last' = [NoOut("easingData") EXCEPT
                   !.tick = << [ target |-> run.target, start |-> run.start, k |-> k,
                                 superseding |-> run.superseding, wrote |-> v ] >>]
     /\ UNCHANGED <<trackVars, state, currentPulseTime, prevPulseTime, lastScrollPos, sheetMusic,
                    parsedMidiFile, preloads, stored, lastCall, ticks, loopSeeks>>

\* handleAutoScrollClick(evt): the checkbox shows !!autoScroll, the click inverts it
HandleAutoScrollClick ==
  LET updatedState == [autoScroll |-> Bool(~Truthy(state.autoScroll))]
      snap == SaveData(state, updatedState)
  IN /\ state' = Merge(state, updatedState)
     /\ stored' = << snap >>
     /\ last' = [NoOut("handleAutoScrollClick") EXCEPT !.saves = << snap >>]
     /\ UNCHANGED <<trackVars, currentPulseTime, prevPulseTime, lastScrollPos,
                    isProgrammaticScrolling, sheetMusic, parsedMidiFile, preloads,
                    scrollTop, runs, pendingScroll, lastCall, ticks, loopSeeks>>

---------------------------------------------------------------------------
(* Selection *)

\* the handler setSelection(prop) returns, as the onClick of a button that is
\* rendered only while isSelecting (mark) or while a pulse is non-zero (clear).
\* React applies the setState of an onClick handler when the handler returns, so
\* updateSelection and saveData read the state from before it.
SetSelection(prop, sugg) ==
  LET currentSelection == CurrentSelection(state, prop)
      u == UpdateSelection(sheetMusic, currentSelection, state, sugg)
      saves == << SaveData(state, currentSelection), currentSelection >>
      next == Merge(state, currentSelection)
  IN /\ IF prop = ""
        THEN state.selectionStartPulse # 0 \/ state.selectionEndPulse # 0
        ELSE state.isSelecting
     /\ Len(u.runs) <= MaxRuns
     /\ state' = next
     /\ sheetMusic' = u.sheetMusic
     /\ lastScrollPos' = u.lastScrollPos
     /\ runs' = u.runs
     /\ stored' = << saves[Len(saves)] >>
     /\ last' = [NoOut(IF prop = "" THEN "clearSelection" ELSE prop) EXCEPT
                   !.shade = u.shade, !.scrollTo = u.scrollTo, !.canvas = u.canvas,
                   !.seeks = u.seeks, !.saves = saves]
     /\ lastCall' = CallAfter(u.scrollTo)
     /\ loopSeeks' = SeeksAfter(currentPulseTime, pulsesPerMs, next, loopSeeks)
     /\ UNCHANGED <<trackVars, currentPulseTime, prevPulseTime, isProgrammaticScrolling,
                    parsedMidiFile, preloads, scrollTop, pendingScroll, ticks>>

\* loadData(data) with the snapshot the persistence collaborator holds.  Whether
\* this.state already shows data inside updateSelection depends on the caller
\* (inside a React handler setState is deferred, outside it is applied at once).
LoadData(applied, sugg) ==
  /\ stored # <<>>
  /\ LET data == stored[1]
         next == Merge(state, data)
         u == UpdateSelection(sheetMusic, data, IF applied THEN next ELSE state, sugg)
     IN /\ Len(u.runs) <= MaxRuns
        /\ state' = next
        /\ sheetMusic' = u.sheetMusic
        /\ lastScrollPos' = u.lastScrollPos
        /\ runs' = u.runs
        /\ last' = [NoOut("loadData") EXCEPT
                      !.shade = u.shade, !.scrollTo = u.scrollTo, !.canvas = u.canvas,
                      !.seeks = u.seeks]
        /\ lastCall' = CallAfter(u.scrollTo)
        /\ loopSeeks' = SeeksAfter(currentPulseTime, pulsesPerMs, next, loopSeeks)
        /\ UNCHANGED <<trackVars, currentPulseTime, prevPulseTime, isProgrammaticScrolling,
                       parsedMidiFile, preloads, scrollTop, pendingScroll, stored,
                       ticks>>

---------------------------------------------------------------------------
(* Layout and loading *)

\* initSheetMusic() as the debounced resize listener
InitSheetMusic(sugg) ==
  LET u == UpdateSelection(sheetMusic, Selection(state), state, sugg)
  IN /\ Len(u.runs) <= MaxRuns
     /\ sheetMusic' = u.sheetMusic
     /\ lastScrollPos' = u.lastScrollPos
     /\ runs' = u.runs
     /\ last' = [NoOut("initSheetMusic") EXCEPT
                   !.shade = u.shade, !.scrollTo = u.scrollTo, !.canvas = u.canvas,
                   !.seeks = u.seeks]
     /\ lastCall' = CallAfter(u.scrollTo)
     /\ UNCHANGED <<trackVars, state, currentPulseTime, prevPulseTime, isProgrammaticScrolling,
                    parsedMidiFile, preloads, scrollTop, pendingScroll, stored,
                    ticks, loopSeeks>>

\* componentDidUpdate with a new props.parsedMidiFile: loadMidiFile starts a preload
ComponentDidUpdate(f) ==
  /\ f # parsedMidiFile
  /\ Len(preloads) < MaxPreloads
  /\ parsedMidiFile' = f
  /\ preloads' = Append(preloads, f)
  /\ last' = NoOut("componentDidUpdate")
  /\ UNCHANGED <<trackVars, state, currentPulseTime, prevPulseTime, lastScrollPos,
                 isProgrammaticScrolling, sheetMusic, scrollTop, runs, pendingScroll,
                 stored, lastCall, ticks, loopSeeks>>

\* the then-callback of loadMidiFile, when preload i resolves
PreloadDone(i, sugg) ==
  LET f == preloads[i]
      sheet == [file |-> f, SelectionStartPulse |-> 0, SelectionEndPulse |-> 0]
      u == UpdateSelection(sheet, Selection(state), state, sugg)
  IN /\ Len(u.runs) <= MaxRuns
     /\ preloads' = SubSeq(preloads, 1, i - 1) \o SubSeq(preloads, i + 1, Len(preloads))
     /\ sheetMusic' = u.sheetMusic
     /\ lastScrollPos' = u.lastScrollPos
     /\ runs' = u.runs
     /\ last' = [NoOut("loadMidiFile") EXCEPT
                   !.shade = u.shade, !.scrollTo = u.scrollTo, !.canvas = u.canvas,
                   !.seeks = u.seeks]
     /\ lastCall' = CallAfter(u.scrollTo)
     /\ ticks' = <<>>
     /\ loopSeeks' = SeeksAfter(currentPulseTime, f.pulsesPerMsec, state, loopSeeks)
     /\ UNCHANGED <<trackVars, state, currentPulseTime, prevPulseTime, isProgrammaticScrolling,
                    parsedMidiFile, scrollTop, pendingScroll, stored>>

---------------------------------------------------------------------------
(* SongSettings: the track table *)

TrackNames == {"Piano", "Percussion"}

\* every value of props.trackSettings for a song of MaxTracks tracks
TrackSettingsOf ==
  [ 1..MaxTracks -> [name : TrackNames, display : BOOLEAN, play : BOOLEAN] ]

\* the field an update of propName writes
Field(propName) == IF propName = "Display" THEN "display" ELSE "play"

\* the update dispatched by props.updateTrackDisplay / props.updateTrackPlay,
\* as the store applies it: the field of every indexed track becomes value
ApplyUpdate(ts, propName, indexes, value) ==
  [ i \in DOMAIN ts |->
      IF i \in indexes THEN [ts[i] EXCEPT ![Field(propName)] = value] ELSE ts[i] ]

\* the filter without its test of the name
TracksToUpdateUnfiltered(ts, propName) == DOMAIN ts

\* tracksToUpdate of updateTrackAll, as indexes
TracksToUpdate(ts, propName) ==
  { i \in DOMAIN ts : propName = "Play" \/ ts[i].name # "Percussion" }

\* the value updateTrackAll passes: no track to update has the field on
ValueForAll(ts, propName) ==
  ~ \E i \in TracksToUpdate(ts, propName) : ts[i][Field(propName)]

\* history: the settings before the last two presses in a row of one button
PressesAfter(propName) ==
  LET press == [prop |-> propName, before |-> trackSettings]
  IN IF presses # <<>> /\ presses[Len(presses)].prop = propName
     THEN << presses[Len(presses)], press >>
     ELSE << press >>

\* the handler updateTrackAll(propName) returns: a toggle-all button is pressed
UpdateTrackAll(propName) ==
  LET indexes == TracksToUpdate(trackSettings, propName)
      value == ValueForAll(trackSettings, propName)
  IN /\ trackSettings' = ApplyUpdate(trackSettings, propName, indexes, value)
     /\ presses' = PressesAfter(propName)
     /\ last' = [NoOut("updateTrackAll") EXCEPT
                   !.dispatch = << [prop |-> propName, indexes |-> indexes, value |-> value] >>]
     /\ UNCHANGED <<state, currentPulseTime, prevPulseTime, lastScrollPos,
                    isProgrammaticScrolling, sheetMusic, parsedMidiFile, preloads,
                    scrollTop, runs, pendingScroll, stored, lastCall, ticks, loopSeeks>>

\* the handler updateTrack([i], propName) returns: the checkbox of one track,
\* which shows the field, is clicked
UpdateTrack(i, propName) ==
  LET checked == ~trackSettings[i][Field(propName)]
  IN /\ trackSettings' = ApplyUpdate(trackSettings, propName, {i}, checked)
     /\ presses' = <<>>
     /\ last' = [NoOut("updateTrack") EXCEPT
                   !.dispatch = << [prop |-> propName, indexes |-> {i}, value |-> checked] >>]
     /\ UNCHANGED <<state, currentPulseTime, prevPulseTime, lastScrollPos,
                    isProgrammaticScrolling, sheetMusic, parsedMidiFile, preloads,
                    scrollTop, runs, pendingScroll, stored, lastCall, ticks, loopSeeks>>

\* the handler updateTrackPlayAndDisplay([i]) returns
UpdateTrackPlayAndDisplay(i) ==
  LET newState == ~trackSettings[i].display /\ ~trackSettings[i].play
  IN /\ trackSettings' = ApplyUpdate(ApplyUpdate(trackSettings, "Play", {i}, newState),
                                     "Display", {i}, newState)
     /\ presses' = <<>>
     /\ last' = [NoOut("updateTrackPlayAndDisplay") EXCEPT
                   !.dispatch = << [prop |-> "Play", indexes |-> {i}, value |-> newState],
                                   [prop |-> "Display", indexes |-> {i}, value |-> newState] >>]
     /\ UNCHANGED <<state, currentPulseTime, prevPulseTime, lastScrollPos,
                    isProgrammaticScrolling, sheetMusic, parsedMidiFile, preloads,
                    scrollTop, runs, pendingScroll, stored, lastCall, ticks, loopSeeks>>

---------------------------------------------------------------------------
(* Specifications *)

\* every handler, with player times from T, clicked pulses from P, offsets
\* suggested by ShadeNotes from S and parsed files from F
NextWith(T, P, S, F) ==
  \/ \E t \in T, s \in S : Animate(t, s)
  \/ NoteOff
  \/ \E p \in P, s \in S : Click(p, s)
  \/ \E y \in ScrollOffsets : UserScroll(y)
  \/ \E s \in S : Scroll(s)
  \/ \E i \in 1..Len(runs) : EasingData(i)
  \/ HandleAutoScrollClick
  \/ \E prop \in {"selectionStart", "selectionEnd", ""}, s \in S : SetSelection(prop, s)
  \/ \E applied \in BOOLEAN, s \in S : LoadData(applied, s)
  \/ \E s \in S : InitSheetMusic(s)
  \/ \E f \in F : ComponentDidUpdate(f)
  \/ \E i \in 1..Len(preloads), s \in S : PreloadDone(i, s)

Next == NextWith(Times, ClickPulses, Suggestions, ParsedFiles)

Spec == Init /\ [][Next]_vars

\* The offset ShadeNotes suggests is an input, whatever the pulses passed to it:
\* the scroll state and the playback and selection state do not read each other.
\* The state space of Spec is their product; each half is explored on its own.

\* Scrolling: every handler that reads or writes the scroll state, with one
\* file, one player time and one clicked pulse
NextScroll ==
  \/ \E s \in Suggestions : Animate(0, s)
  \/ \E s \in Suggestions : Click(2, s)
  \/ \E y \in ScrollOffsets : UserScroll(y)
  \/ \E s \in Suggestions : Scroll(s)
  \/ \E i \in 1..Len(runs) : EasingData(i)
  \/ HandleAutoScrollClick
  \/ \E s \in Suggestions : InitSheetMusic(s)
  \/ \E f \in {g \in ParsedFiles : g.id = "A"} : ComponentDidUpdate(f)
  \/ \E i \in 1..Len(preloads), s \in Suggestions : PreloadDone(i, s)

SpecScroll == Init /\ [][NextScroll]_vars

\* Playback and selection: every handler, with one file and with ShadeNotes
\* suggesting no offset (so that no animation run starts)
NextPlayback ==
  \/ \E t \in Times : Animate(t, -1)
  \/ NoteOff
  \/ \E p \in ClickPulses : Click(p, -1)
  \/ \E y \in ScrollOffsets : UserScroll(y)
  \/ Scroll(-1)
  \/ HandleAutoScrollClick
  \/ \E prop \in {"selectionStart", "selectionEnd", ""} : SetSelection(prop, -1)
  \/ \E applied \in BOOLEAN : LoadData(applied, -1)
  \/ InitSheetMusic(-1)
  \/ \E f \in {g \in ParsedFiles : g.id = "B"} : ComponentDidUpdate(f)
  \/ \E i \in 1..Len(preloads) : PreloadDone(i, -1)

SpecPlayback == Init /\ [][NextPlayback]_vars

\* Changing files: the handlers that read or write the selection, the stored
\* pulses or the loaded file, with both files and ShadeNotes suggesting no offset
NextFiles ==
  \/ \E t \in Times : Animate(t, -1)
  \/ NoteOff
  \/ \E p \in ClickPulses : Click(p, -1)
  \/ \E prop \in {"selectionStart", "selectionEnd", ""} : SetSelection(prop, -1)
  \/ \E f \in ParsedFiles : ComponentDidUpdate(f)
  \/ \E i \in 1..Len(preloads) : PreloadDone(i, -1)

SpecFiles == Init /\ [][NextFiles]_vars

\* The track table, from every setting of the tracks of a song
InitTracks ==
  /\ Mounted
  /\ trackSettings \in TrackSettingsOf
  /\ presses = <<>>

NextTracks ==
  \/ \E propName \in {"Display", "Play"} : UpdateTrackAll(propName)
  \/ \E i \in DOMAIN trackSettings, propName \in {"Display", "Play"} : UpdateTrack(i, propName)
  \/ \E i \in DOMAIN trackSettings : UpdateTrackPlayAndDisplay(i)

SpecTracks == InitTracks /\ [][NextTracks]_vars

---------------------------------------------------------------------------
(* Properties *)

Loaded == sheetMusic # NoSheet
Unset == [ selectionStartMs |-> -1, selectionEndMs |-> -1,
           selectionStartPulse |-> 0, selectionEndPulse |-> 0 ]
SelectionOps == {"selectionStart", "selectionEnd", "clearSelection"}

\* C1: whenever the scroll handler runs with autoScroll true, it sets autoScroll
\* to false if the events it handles were raised by the user alone and no
\* animation run is in flight, and leaves autoScroll true if a tick's write
\* raised one of them.
C1_ScrollHandlerTellsUserFromTick ==
  [][ (last'.op = "scroll" /\ Truthy(state.autoScroll)) =>
        /\ (pendingScroll = {"user"} /\ runs = <<>>) => state'.autoScroll = "false"
        /\ "tick" \in pendingScroll => state'.autoScroll = "true" ]_vars

\* C2 as stated: two scrollTo calls in a row with the same target >= 0, autoScroll
\* enabled at both, start exactly one run: the first starts one, the second none.
C2_RepeatedPairStartsExactlyOneRun ==
  (lastCall.repeat /\ lastCall.target >= 0) =>
     (lastCall.prevStarted /\ ~lastCall.started)

\* C2 as amended: such a pair starts at most one run: the second call starts
\* none and changes neither lastScrollPos nor the runs in flight.
C2_RepeatedCallIsNoOp ==
  (lastCall.repeat /\ lastCall.target >= 0) =>
     (~lastCall.started /\ ~lastCall.changed)

\* a repeated call whose first call had started a run
C2_Witness ==
  /\ lastCall.repeat /\ lastCall.target >= 0
  /\ lastCall.prevStarted /\ ~lastCall.started

\* C3: while autoScroll is not true no handler starts an animation run and no
\* tick of a run, started earlier or not, moves the scroll offset.
C3_NoProgrammaticWriteWhileManual ==
  [][ ~Truthy(state.autoScroll) =>
        /\ last'.op = "easingData" => scrollTop' = scrollTop
        /\ Len(runs') <= Len(runs) ]_vars

\* C4: a scrollTo call with a negative target starts no run and changes neither
\* lastScrollPos nor the runs in flight (the only state scrollTo writes).
C4_NegativeTargetIsNoOp ==
  \A i \in DOMAIN last.scrollTo :
     last.scrollTo[i].target < 0 =>
        (~last.scrollTo[i].started /\ ~last.scrollTo[i].changed)

\* a negative target refused although autoScroll is on and the target is new
C4_Witness ==
  /\ last.scrollTo # <<>>
  /\ last.scrollTo[1].target < 0
  /\ last.scrollTo[1].auto
  /\ lastScrollPos >= 0

\* C5: the shade call of the second of two ticks t1, t2 with no click (and no
\* load) between them has current pulse t2 * pulsesPerMs and previous pulse
\* t1 * pulsesPerMs; the stored previous pulse stays the last tick's pulse
\* whatever other events follow.
C5_TickShadesFromPreviousTick ==
  /\ (last.op = "animate" /\ Loaded /\ Len(ticks) = 2) =>
        last.shade = << << Mul(ticks[2], pulsesPerMs), Mul(ticks[1], pulsesPerMs) >> >>
  /\ (Loaded /\ ticks # <<>>) =>
        prevPulseTime = Mul(ticks[Len(ticks)], pulsesPerMs)

\* a tick that follows a tick at another time
C5_Witness ==
  /\ last.op = "animate" /\ Loaded
  /\ Len(ticks) = 2 /\ ticks[1] # ticks[2] /\ ticks[1] > 0

\* C6 as stated: a click mapping to pulse p shades the pair (p, p - measure),
\* for any p, and sets isSelecting.
C6_ClickShadesClickedPulse ==
  (last.op = "click" /\ ~last.error) =>
     /\ last.shade = << << last.arg, last.arg - measure >> >>
     /\ state.isSelecting

\* C6 as amended: the pair is (p, p - measure) when p <= totalPulses and
\* (p - measure, p - measure) when p > totalPulses; isSelecting is set in both cases.
C6_ClickShadesClampedPulse ==
  (last.op = "click" /\ ~last.error) =>
     /\ last.shade = IF last.arg > totalPulses
                     THEN << << last.arg - measure, last.arg - measure >> >>
                     ELSE << << last.arg, last.arg - measure >> >>
     /\ state.isSelecting

\* a click past the end of the file
C6_Witness ==
  last.op = "click" /\ ~last.error /\ last.arg > totalPulses

\* C7: clearing the selection resets both bounds to unset and hands exactly one
\* snapshot to props.saveData.
C7_ClearResetsAndSavesOnce ==
  last.op = "clearSelection" =>
     (Selection(state) = Unset /\ Len(last.saves) = 1)

\* C8: while playback stays past the end bound of a set selection at most one
\* seek is sent, and ticks send none.
C8_OneSeekPerCrossing ==
  /\ loopSeeks <= 1
  /\ last.op = "animate" => last.seeks = <<>>

\* C9: every snapshot a selection transition hands to props.saveData holds the
\* four selection fields as they are after the transition and the autoScroll flag.
C9_EverySnapshotComplete ==
  last.op \in SelectionOps =>
     \A i \in DOMAIN last.saves :
        last.saves[i] = [ selectionStartMs |-> state.selectionStartMs,
                          selectionEndMs |-> state.selectionEndMs,
                          selectionStartPulse |-> state.selectionStartPulse,
                          selectionEndPulse |-> state.selectionEndPulse,
                          autoScroll |-> state.autoScroll ]

\* C10: marking start (end) writes the last clicked time and pulse into the
\* start (end) bound and keeps the other bound; with a score loaded the
\* collaborator's SelectionStartPulse and SelectionEndPulse are then the
\* pulses of the updated selection.
C10_MarkWritesClickedBound ==
  [][ /\ last'.op = "selectionStart" =>
           /\ state'.selectionStartMs = state.lastClickMs
           /\ state'.selectionStartPulse = state.lastClickPulse
           /\ state'.selectionEndMs = state.selectionEndMs
           /\ state'.selectionEndPulse = state.selectionEndPulse
      /\ last'.op = "selectionEnd" =>
           /\ state'.selectionEndMs = state.lastClickMs
           /\ state'.selectionEndPulse = state.lastClickPulse
           /\ state'.selectionStartMs = state.selectionStartMs
           /\ state'.selectionStartPulse = state.selectionStartPulse
      /\ (last'.op \in {"selectionStart", "selectionEnd"} /\ Loaded') =>
           /\ sheetMusic'.SelectionStartPulse = state'.selectionStartPulse
           /\ sheetMusic'.SelectionEndPulse = state'.selectionEndPulse ]_vars

\* both bounds marked, at different clicks, on a loaded score
C10_Witness ==
  /\ last.op = "selectionEnd" /\ Loaded
  /\ state.selectionStartMs >= 0
  /\ state.selectionEndPulse # state.selectionStartPulse
  /\ sheetMusic.SelectionEndPulse = state.lastClickPulse

C12_ScrollShadesStoredPair ==
  (last.op = "scroll" /\ Loaded) =>
     last.shade = << << currentPulseTime, prevPulseTime >> >>

\* C13: while no score is loaded no handler throws, none calls the rendering
\* collaborator and none sends a seek.
C13_QuietWithoutScore ==
  ~Loaded => (~last.error /\ last.shade = <<>> /\ last.seeks = <<>>)

\* this.state of a freshly constructed component
FreshState ==
  [ selectionStartMs |-> -1, selectionEndMs |-> -1,
    selectionStartPulse |-> 0, selectionEndPulse |-> 0,
    autoScroll |-> "undefined", isSelecting |-> FALSE,
    lastClickMs |-> NaN, lastClickPulse |-> NaN ]

\* the five persisted fields of a state
Persistent(st) == SaveData(st, Selection(st))

\* C14: after a mark, a clear or an auto-scroll toggle, loadData of the snapshot
\* the persistence collaborator holds into a fresh component gives the five
\* persisted fields of the component that saved it.
C14_RoundTrip ==
  (last.op \in SelectionOps \cup {"handleAutoScrollClick"}) =>
     Persistent(Merge(FreshState, stored[1])) = Persistent(state)

\* C15: lerp(a, b, 0) = a and lerp(a, b, 1) = b for all offsets a and b, and the
\* last tick of a run, whose progress is 1, writes the run's target.
C15_FinalTickReachesTarget ==
  /\ \A a, b \in ScrollOffsets :
        SetScrollTop(lerp(a, b, 0)) = a /\ SetScrollTop(lerp(a, b, Ease(Steps, Steps))) = b
  /\ (last.op = "easingData" /\ last.tick[1].k = Steps) =>
        (last.tick[1].wrote = last.tick[1].target /\ scrollTop = last.tick[1].target)

\* the last tick of a run that started away from its target
C15_Witness ==
  /\ last.op = "easingData"
  /\ last.tick[1].k = Steps
  /\ last.tick[1].start # last.tick[1].target
  /\ scrollTop = last.tick[1].target

\* C16: when every animation run has finished and no scroll event awaits the
\* handler, isProgrammaticScrolling is false.
C16_FlagOnlyWhileRunning ==
  (runs = <<>> /\ pendingScroll = {}) => ~isProgrammaticScrolling

\* what shadeNotes does to the overlay at scroll offset y: translate by -y,
\* let the collaborator paint, translate back
Shaded(y) == << Translate(-y), Paint, Translate(y) >>

C18_BoundsMatchLoadedFile ==
  Loaded =>
     /\ state.selectionStartMs >= 0 =>
           state.selectionStartPulse = Mul(state.selectionStartMs, pulsesPerMs)
     /\ state.selectionEndMs >= 0 =>
           state.selectionEndPulse = Mul(state.selectionEndMs, pulsesPerMs)

\* the tracks a toggle-all button is about
Targeted(propName) ==
  { i \in DOMAIN trackSettings :
       propName = "Play" \/ trackSettings[i].name # "Percussion" }

\* a toggle-all press dispatches one update, for Display of exactly the tracks
\* not named Percussion and for Play of every track, with value true iff none
\* of them had the field on; a Display press leaves every Percussion track as it was
ToggleAllDispatch ==
  last.op = "updateTrackAll" =>
     LET d == last.dispatch[1]
         before == presses[Len(presses)].before
     IN /\ Len(last.dispatch) = 1
        /\ d.indexes = Targeted(d.prop)
        /\ d.value = ~ \E i \in Targeted(d.prop) : before[i][Field(d.prop)]
        /\ \A i \in DOMAIN trackSettings :
              trackSettings[i].name = "Percussion" =>
                 trackSettings[i].display = before[i].display

\* C19 as stated: the dispatch is as above, and after two presses in a row of
\* one toggle-all button every targeted track is on.
C19_TwoPressesLeaveAllOn ==
  /\ ToggleAllDispatch
  /\ (last.op = "updateTrackAll" /\ Len(presses) = 2) =>
        \A i \in Targeted(presses[1].prop) :
           trackSettings[i][Field(presses[1].prop)]

\* C19 as amended: the dispatch is as above; after one press every targeted
\* track has the dispatched value, and after two presses in a row every
\* targeted track is on iff one of them was on before the first press.
C19_TwoPressesRestoreAnyOn ==
  /\ ToggleAllDispatch
  /\ last.op = "updateTrackAll" =>
        \A i \in Targeted(last.dispatch[1].prop) :
           trackSettings[i][Field(last.dispatch[1].prop)] = last.dispatch[1].value
  /\ (last.op = "updateTrackAll" /\ Len(presses) = 2) =>
        \A i \in Targeted(presses[1].prop) :
           trackSettings[i][Field(presses[1].prop)] =
              (\E j \in Targeted(presses[1].prop) : presses[1].before[j][Field(presses[1].prop)])

\* two presses of the Display button on a song with a displayed Percussion
\* track and another track, none of the others displayed before the first press
C19_Witness ==
  /\ last.op = "updateTrackAll" /\ Len(presses) = 2
  /\ presses[1].prop = "Display"
  /\ \E i \in DOMAIN trackSettings :
        trackSettings[i].name = "Percussion" /\ trackSettings[i].display
  /\ Targeted("Display") # {}
  /\ \A i \in Targeted("Display") :
        ~presses[1].before[i].display /\ ~trackSettings[i].display

\* C20: every seek sent is the seek of a click or the loop seek of noteOff and
\* carries a time >= 0; no other handler sends one, so none is sent to the
\* unset start -1.
C20_SeeksAreClickOrLoop ==
  \A i \in DOMAIN last.seeks :
     last.seeks[i] >= 0 /\ last.op \in {"click", "noteOff"}

\* C21: once every preload requested has completed, the score and the ratios
\* loaded are those of the file requested last, whatever the order in which
\* the preloads completed.
C21_LatestFileWins ==
  (preloads = <<>> /\ parsedMidiFile # NoFile) => sheetMusic.file = parsedMidiFile

\* C22: when a shade call made with autoScroll on obtains the offset X >= 0 and
\* autoScroll stays on, the offset is X, or a run is in flight that will bring
\* it there: a call that starts no run with no run in flight, at another
\* offset, leaves the offset away from X for as long as X is suggested.
C22_AutoScrollReachesSuggestion ==
  \A i \in DOMAIN last.scrollTo :
     ( /\ last.scrollTo[i].auto /\ last.scrollTo[i].target >= 0
       /\ Truthy(state.autoScroll) /\ pendingScroll = {}
       /\ ~last.scrollTo[i].started /\ runs = <<>> )
     => scrollTop = last.scrollTo[i].target

===========================================================================
